---- MODULE Spec2Model ----
(***************************************************************************)
(* A model of the authentication core of src/server.ts: the credential     *)
(* hasher (hashPassword, verifyPassword), the cookie codec (parseCookies), *)
(* the identity resolver (attachUser, getSession, getUserFromSession) and  *)
(* the controllers (home, login, register, logout) over the two sqlite     *)
(* tables users and sessions.                                              *)
(*                                                                         *)
(* Strings that the code takes apart (the stored password, the cookie      *)
(* header) are sequences of tokens: a token is a delimiter (":", ";", "=", *)
(* " ") or an indivisible run of other characters (a hex blob, a name).    *)
(* Instants are integers, milliseconds since the epoch.                    *)
(***************************************************************************)
EXTENDS Integers, Sequences, FiniteSets, TLC

VARIABLES
    users,      \* table users: sequence of rows, row i has id i (AUTOINCREMENT)
    sessions,   \* table sessions: set of rows [id, user_id, expires_at]
    issued,     \* session ids crypto.randomBytes has returned so far
    now,        \* the clock (Date.now()), in ms
    reqs,       \* the requests in flight, one per slot
    out,        \* what the last step sent or raised (NoOut when nothing)
    crashed,    \* the process died of an uncaught exception
    pw,         \* state of the credential hasher exercised on its own
    ck          \* state of the cookie codec exercised on its own

vars == <<users, sessions, issued, now, reqs, out, crashed, pw, ck>>

(***************************************************************************)
(* Bounds of the model.                                                    *)
(***************************************************************************)
MaxUsers == 2
MaxTicks == 1
MaxHashes == 2
MaxStoredLen == 4
MaxHeaderLen == 4

(***************************************************************************)
(* Program constants.                                                      *)
(***************************************************************************)
\* 7 * 24 * 60 * 60 * 1000, the session time to live in ms
TTL == 604800000
\* Date.prototype.toUTCString keeps whole seconds
MsPerSecond == 1000

\* null / undefined where the code has a string (formData.get of a missing
\* field, a NULL column)
NULL == "<null>"
\* the outcome of an expression that throws
THROWN == "<thrown>"

\* two requests can be in flight at once
Slots == {1, 2}
Usernames == {"alice"}
Passwords == {"pw1", "pw2"}
\* what crypto.randomBytes(16).toString("hex") can return for a salt
Salts == {"aa", "bb"}
\* the salts drawn while the server runs
ServerSalts == {"aa"}
\* what crypto.randomBytes(16).toString("hex") can return for a session id
SessionIds == {<<"s1">>, <<"s2">>}

(***************************************************************************)
(* String helpers: String.prototype.split and trim on token sequences.     *)
(***************************************************************************)
RECURSIVE Split(_, _)
Split(s, sep) ==
    IF s = <<>> THEN << <<>> >>
    ELSE LET rest == Split(Tail(s), sep)
         IN  IF Head(s) = sep
             THEN << <<>> >> \o rest
             ELSE << <<Head(s)>> \o Head(rest) >> \o Tail(rest)

RECURSIVE Join(_)
Join(s) == IF s = <<>> THEN "" ELSE Head(s) \o Join(Tail(s))

(***************************************************************************)
(* Password utilities.                                                     *)
(***************************************************************************)
\* crypto.pbkdf2Sync(password, salt, 1000, 64, "sha512").toString("hex"):
\* one hex blob, a function of the password and of the characters of the
\* salt, taken as injective; a null password is a TypeError.
Pbkdf2Sync(password, salt) ==
    IF password = NULL THEN THROWN
    ELSE "pbkdf2[" \o password \o "|" \o Join(salt) \o "]"

\* hashPassword with the salt that crypto.randomBytes(16) returned
HashPassword(password, salt) ==
    LET hash == Pbkdf2Sync(password, <<salt>>)
    IN  IF hash = THROWN THEN <<THROWN>> ELSE <<salt, ":", hash>>

\* verifyPassword with the destructuring swapped: const [hash, salt]
VerifyPassword_SwappedParts(password, storedHash) ==
    LET parts == Split(storedHash, ":")
        salt == IF Len(parts) >= 2 THEN parts[2] ELSE <<>>
        verifyHash == Pbkdf2Sync(password, salt)
    IN  [threw |-> verifyHash = THROWN,
         value |-> /\ verifyHash /= THROWN
                   /\ Join(parts[1]) = verifyHash]

\* const [salt, hash] = storedHash.split(":"): the first two parts, the
\* second undefined when there is one part only; hash === verifyHash.
\* threw: pbkdf2Sync raised; value: the boolean returned otherwise.
VerifyPassword(password, storedHash) ==
    LET parts == Split(storedHash, ":")
        salt == parts[1]
        verifyHash == Pbkdf2Sync(password, salt)
    IN  [threw |-> verifyHash = THROWN,
         value |-> /\ verifyHash /= THROWN
                   /\ Len(parts) >= 2
                   /\ Join(parts[2]) = verifyHash]

(***************************************************************************)
(* Cookie parsing.                                                         *)
(***************************************************************************)
\* req.headers.cookie when the request has no Cookie header
NoHeader == <<NULL>>

\* a cookies object: a set of [name, value] entries, one per name
NoCookies == {}

RECURSIVE TrimStart(_)
TrimStart(s) ==
    IF s /= <<>> /\ Head(s) = " " THEN TrimStart(Tail(s)) ELSE s

RECURSIVE TrimEnd(_)
TrimEnd(s) ==
    IF s /= <<>> /\ s[Len(s)] = " " THEN TrimEnd(SubSeq(s, 1, Len(s) - 1)) ELSE s

Trim(s) == TrimEnd(TrimStart(s))

\* decodeURIComponent of one token: "%20" is an escaped space, a lone "%"
\* is a malformed escape (URIError)
DecodeToken(tok) == IF tok = "%20" THEN " " ELSE tok

\* decodeURIComponent(value); of undefined it is the string "undefined"
DecodeURIComponent(value) ==
    IF value = <<NULL>> THEN <<"undefined">>
    ELSE IF \E i \in 1..Len(value) : value[i] = "%" THEN <<THROWN>>
    ELSE [i \in 1..Len(value) |-> DecodeToken(value[i])]

\* cookies[name] = value
SetCookieEntry(cookies, name, value) ==
    {c \in cookies : c.name /= name} \cup {[name |-> name, value |-> value]}

\* cookies[name], <<NULL>> when the object has no such property
GetCookie(cookies, name) ==
    IF \E c \in cookies : c.name = name
    THEN (CHOOSE c \in cookies : c.name = name).value
    ELSE <<NULL>>

\* in place of the cookies object when decodeURIComponent raised
ThrownCookies == {[name |-> <<THROWN>>, value |-> <<THROWN>>]}

\* the reduce over cookieHeader.split(";"), left to right
RECURSIVE ReduceCookies(_, _)
ReduceCookies(cookies, pairs) ==
    IF pairs = <<>> THEN cookies
    ELSE LET parts == Split(Trim(Head(pairs)), "=")
             name == parts[1]
             value == IF Len(parts) >= 2 THEN parts[2] ELSE <<NULL>>
             decoded == DecodeURIComponent(value)
         IN  IF decoded = <<THROWN>> THEN ThrownCookies
             ELSE ReduceCookies(SetCookieEntry(cookies, name, decoded), Tail(pairs))

ParseCookies(cookieHeader) ==
    IF cookieHeader = NoHeader \/ cookieHeader = <<>> THEN NoCookies
    ELSE ReduceCookies(NoCookies, Split(cookieHeader, ";"))

(***************************************************************************)
(* Dates.                                                                  *)
(***************************************************************************)
\* Date.prototype.toISOString: whole seconds and milliseconds
ToISOString(t) == [sec |-> t \div MsPerSecond, ms |-> t % MsPerSecond]

\* new Date(isoString), as an instant
DateParse(iso) == iso.sec * MsPerSecond + iso.ms

\* Date.prototype.toUTCString: an HTTP date, whole seconds
ToUTCString(t) == t \div MsPerSecond

\* the instant an HTTP date names
HttpDateInstant(d) == d * MsPerSecond

(***************************************************************************)
(* Rows and the request's identity context.                                *)
(***************************************************************************)
\* req.user before attachUser sets it
NoUser == [id |-> 0, username |-> NULL, password |-> <<>>]

\* req.session before attachUser sets it
NoSession == [id |-> <<>>, user_id |-> 0, expires_at |-> ToISOString(0)]

SessionRowIds(S) == {row.id : row \in S}

\* SELECT * FROM sessions WHERE id = ?
SelectSession(S, sessionId) ==
    IF \E row \in S : row.id = sessionId
    THEN CHOOSE row \in S : row.id = sessionId
    ELSE NoSession

\* the DELETE without its WHERE clause once the id has a row
DeleteSession_AllRows(S, sessionId) ==
    IF sessionId \in SessionRowIds(S) THEN {} ELSE S

\* DELETE FROM sessions WHERE id = ?
DeleteSession(S, sessionId) == {row \in S : row.id /= sessionId}

\* SELECT * FROM users WHERE id = ?
SelectUserById(U, id) ==
    IF id \in 1..Len(U) THEN U[id] ELSE NoUser

\* the SELECT by username returning the row under the id after its own
SelectUserByName_NextId(U, username) ==
    IF username /= NULL /\ \E i \in 1..Len(U) : U[i].username = username
    THEN [U[CHOOSE i \in 1..Len(U) : U[i].username = username]
             EXCEPT !.id = @ + 1]
    ELSE NoUser

\* SELECT * FROM users WHERE username = ? (NULL = NULL is not true in SQL)
SelectUserByName(U, username) ==
    IF username /= NULL /\ \E i \in 1..Len(U) : U[i].username = username
    THEN U[CHOOSE i \in 1..Len(U) : U[i].username = username]
    ELSE NoUser

\* the UNIQUE constraint on users.username: NULLs are distinct
UniqueViolation(U, username) ==
    username /= NULL /\ \E i \in 1..Len(U) : U[i].username = username

\* getSession with the expiry test off by one: expiresAt <= new Date()
GetSession_ExpiredAtExpiry(cookies, S, clock) ==
    LET sessionId == GetCookie(cookies, <<"sessionId">>)
        session == SelectSession(S, sessionId)
    IN  IF sessionId = <<NULL>> \/ sessionId = <<>>
        THEN [session |-> NoSession, evict |-> FALSE]
        ELSE IF session = NoSession
        THEN [session |-> NoSession, evict |-> FALSE]
        ELSE IF DateParse(session.expires_at) <= clock
        THEN [session |-> NoSession, evict |-> TRUE]
        ELSE [session |-> session, evict |-> FALSE]

\* getSession: the session to attach, and whether the row was deleted
GetSession(cookies, S, clock) ==
    LET sessionId == GetCookie(cookies, <<"sessionId">>)
        session == SelectSession(S, sessionId)
    IN  IF sessionId = <<NULL>> \/ sessionId = <<>>
        THEN [session |-> NoSession, evict |-> FALSE]
        ELSE IF session = NoSession
        THEN [session |-> NoSession, evict |-> FALSE]
        ELSE IF DateParse(session.expires_at) < clock
        THEN [session |-> NoSession, evict |-> TRUE]
        ELSE [session |-> session, evict |-> FALSE]

\* getUserFromSession without the WHERE clause: the first user row
GetUserFromSession_FirstRow(U, session) ==
    IF Len(U) >= 1 THEN U[1] ELSE NoUser

\* getUserFromSession
GetUserFromSession(U, session) == SelectUserById(U, session.user_id)

\* attachUser over a getSession that sweeps every expired row when it evicts
AttachUser_SweepsExpired(cookies, U, S, clock) ==
    LET got == GetSession(cookies, S, clock)
        user == GetUserFromSession(U, got.session)
        table == IF got.evict
                 THEN {row \in S : ~(DateParse(row.expires_at) < clock)}
                 ELSE S
    IN  IF got.session = NoSession \/ user = NoUser
        THEN [user |-> NoUser, session |-> NoSession, sessions |-> table]
        ELSE [user |-> user, session |-> got.session, sessions |-> table]

\* attachUser: [user, session] as left on the request, and the sessions table
AttachUser(cookies, U, S, clock) ==
    LET got == GetSession(cookies, S, clock)
        user == GetUserFromSession(U, got.session)
        table == IF got.evict
                 THEN DeleteSession(S, GetCookie(cookies, <<"sessionId">>))
                 ELSE S
    IN  IF got.session = NoSession \/ user = NoUser
        THEN [user |-> NoUser, session |-> NoSession, sessions |-> table]
        ELSE [user |-> user, session |-> got.session, sessions |-> table]

(***************************************************************************)
(* Templates and responses.                                                *)
(***************************************************************************)
\* nav with the test on user dropped
Nav_AlwaysAnonymous(user) == "Login Register"

\* nav: which links the navigation bar shows
Nav(user) == IF user /= NoUser THEN "Logout" ELSE "Login Register"

\* home: the paragraph under the heading
Home(user) ==
    IF user /= NoUser THEN "Hello, " \o user.username \o "!"
    ELSE "Please log in or register."

NoSetCookie == [set |-> FALSE, value |-> <<>>, expires |-> 0]

\* the step ended no request
NoOut ==
    [ctl |-> "", outcome |-> "", status |-> 0, page |-> "", nav |-> "",
     text |-> "", cookie |-> NoSetCookie, location |-> ""]

\* res.render(name, data): 200 with the page; text is the home paragraph or
\* the form's error
Render(ctl, user, name, error) ==
    [ctl |-> ctl, outcome |-> "response", status |-> 200, page |-> name,
     nav |-> Nav(user),
     text |-> IF name = "home" THEN Home(user) ELSE error,
     cookie |-> NoSetCookie, location |-> ""]

\* setHeader("Set-Cookie", ...); writeHead(302, {Location: "/"}); end()
Redirect(ctl, value, expires) ==
    [ctl |-> ctl, outcome |-> "response", status |-> 302, page |-> "",
     nav |-> "", text |-> "",
     cookie |-> [set |-> TRUE, value |-> value, expires |-> expires],
     location |-> "/"]

\* the handler threw: nothing was written to the response
Fault(ctl) == [NoOut EXCEPT !.ctl = ctl, !.outcome = "exception"]

\* the handler returned without writing to the response
Unanswered(ctl) == [NoOut EXCEPT !.ctl = ctl, !.outcome = "unanswered"]

\* writeHead(404); end()
NotFound == [NoOut EXCEPT !.ctl = "server", !.outcome = "response", !.status = 404]

\* handleStatic answered with a file of public/
StaticFile == [NoOut EXCEPT !.ctl = "static", !.outcome = "response", !.status = 200]

\* the files under public/
StaticPaths == {"/styles.css"}

(***************************************************************************)
(* Controllers: what a handler does to the tables and to the response.     *)
(* A result is [users, sessions, out, threw, drew]: drew is whether        *)
(* crypto.randomBytes was asked for a session id.                          *)
(***************************************************************************)
\* loginController storing the row without the time to live added
LoginController_NoTtl(req, U, S, clock, sessionId) ==
    LET user == SelectUserByName(U, req.username)
        verified == VerifyPassword(req.password, user.password)
        expiresAt == clock
        row == [id |-> sessionId, user_id |-> user.id,
                expires_at |-> ToISOString(expiresAt)]
    IN  IF user = NoUser
        THEN [users |-> U, sessions |-> S, threw |-> FALSE, drew |-> FALSE,
              out |-> Render("login", req.user, "login", "Invalid username or password")]
        ELSE IF verified.threw
        THEN [users |-> U, sessions |-> S, threw |-> TRUE, drew |-> FALSE,
              out |-> Fault("login")]
        ELSE IF ~verified.value
        THEN [users |-> U, sessions |-> S, threw |-> FALSE, drew |-> FALSE,
              out |-> Render("login", req.user, "login", "Invalid username or password")]
        ELSE IF sessionId \in SessionRowIds(S)
        THEN [users |-> U, sessions |-> S, threw |-> TRUE, drew |-> TRUE,
              out |-> Fault("login")]
        ELSE [users |-> U, sessions |-> S \cup {row}, threw |-> FALSE, drew |-> TRUE,
              out |-> Redirect("login", sessionId, ToUTCString(expiresAt))]

\* loginController with INSERT OR REPLACE INTO sessions
LoginController_Replaces(req, U, S, clock, sessionId) ==
    LET user == SelectUserByName(U, req.username)
        verified == VerifyPassword(req.password, user.password)
        expiresAt == clock + TTL
        row == [id |-> sessionId, user_id |-> user.id,
                expires_at |-> ToISOString(expiresAt)]
    IN  IF user = NoUser
        THEN [users |-> U, sessions |-> S, threw |-> FALSE, drew |-> FALSE,
              out |-> Render("login", req.user, "login", "Invalid username or password")]
        ELSE IF verified.threw
        THEN [users |-> U, sessions |-> S, threw |-> TRUE, drew |-> FALSE,
              out |-> Fault("login")]
        ELSE IF ~verified.value
        THEN [users |-> U, sessions |-> S, threw |-> FALSE, drew |-> FALSE,
              out |-> Render("login", req.user, "login", "Invalid username or password")]
        ELSE [users |-> U, sessions |-> DeleteSession(S, sessionId) \cup {row},
              threw |-> FALSE, drew |-> TRUE,
              out |-> Redirect("login", sessionId, ToUTCString(expiresAt))]

\* the "end" listener of loginController's POST branch
LoginController(req, U, S, clock, sessionId) ==
    LET user == SelectUserByName(U, req.username)
        verified == VerifyPassword(req.password, user.password)
        expiresAt == clock + TTL
        row == [id |-> sessionId, user_id |-> user.id,
                expires_at |-> ToISOString(expiresAt)]
    IN  IF user = NoUser
        THEN [users |-> U, sessions |-> S, threw |-> FALSE, drew |-> FALSE,
              out |-> Render("login", req.user, "login", "Invalid username or password")]
        ELSE IF verified.threw
        THEN [users |-> U, sessions |-> S, threw |-> TRUE, drew |-> FALSE,
              out |-> Fault("login")]
        ELSE IF ~verified.value
        THEN [users |-> U, sessions |-> S, threw |-> FALSE, drew |-> FALSE,
              out |-> Render("login", req.user, "login", "Invalid username or password")]
        ELSE IF sessionId \in SessionRowIds(S)
        THEN [users |-> U, sessions |-> S, threw |-> TRUE, drew |-> TRUE,
              out |-> Fault("login")]
        ELSE [users |-> U, sessions |-> S \cup {row}, threw |-> FALSE, drew |-> TRUE,
              out |-> Redirect("login", sessionId, ToUTCString(expiresAt))]

\* registerController giving the session to the row before the inserted one
RegisterController_WrongOwner(req, U, S, clock, sessionId, salt) ==
    LET hashedPassword == HashPassword(req.password, salt)
        userId == Len(U) + 1
        inserted == Append(U, [id |-> userId, username |-> req.username,
                               password |-> hashedPassword])
        expiresAt == clock + TTL
        row == [id |-> sessionId, user_id |-> Len(U),
                expires_at |-> ToISOString(expiresAt)]
    IN  IF hashedPassword = <<THROWN>>
        THEN [users |-> U, sessions |-> S, threw |-> TRUE, drew |-> FALSE,
              out |-> Fault("register")]
        ELSE IF UniqueViolation(U, req.username)
        THEN [users |-> U, sessions |-> S, threw |-> FALSE, drew |-> FALSE,
              out |-> Render("register", req.user, "register",
                             "UNIQUE constraint failed: users.username")]
        ELSE IF sessionId \in SessionRowIds(S)
        THEN [users |-> inserted, sessions |-> S, threw |-> TRUE, drew |-> TRUE,
              out |-> Fault("register")]
        ELSE [users |-> inserted, sessions |-> S \cup {row}, threw |-> FALSE,
              drew |-> TRUE,
              out |-> Redirect("register", sessionId, ToUTCString(expiresAt))]

\* the "end" listener of registerController's POST branch
RegisterController(req, U, S, clock, sessionId, salt) ==
    LET hashedPassword == HashPassword(req.password, salt)
        userId == Len(U) + 1
        inserted == Append(U, [id |-> userId, username |-> req.username,
                               password |-> hashedPassword])
        expiresAt == clock + TTL
        row == [id |-> sessionId, user_id |-> userId,
                expires_at |-> ToISOString(expiresAt)]
    IN  IF hashedPassword = <<THROWN>>
        THEN [users |-> U, sessions |-> S, threw |-> TRUE, drew |-> FALSE,
              out |-> Fault("register")]
        ELSE IF UniqueViolation(U, req.username)
        THEN [users |-> U, sessions |-> S, threw |-> FALSE, drew |-> FALSE,
              out |-> Render("register", req.user, "register",
                             "UNIQUE constraint failed: users.username")]
        ELSE IF sessionId \in SessionRowIds(S)
        THEN [users |-> inserted, sessions |-> S, threw |-> TRUE, drew |-> TRUE,
              out |-> Fault("register")]
        ELSE [users |-> inserted, sessions |-> S \cup {row}, threw |-> FALSE,
              drew |-> TRUE,
              out |-> Redirect("register", sessionId, ToUTCString(expiresAt))]

\* logoutController without the DELETE
LogoutController_KeepsRow(req, S) ==
    [sessions |-> S, out |-> Redirect("logout", <<>>, 0)]

\* logoutController
LogoutController(req, S) ==
    LET sessionId == GetCookie(req.cookies, <<"sessionId">>)
    IN  [sessions |-> IF sessionId /= <<NULL>> /\ sessionId /= <<>>
                      THEN DeleteSession(S, sessionId) ELSE S,
         out |-> Redirect("logout", <<>>, 0)]

\* the callback of http.createServer after handleStatic declined: the route
\* taken and the controller's synchronous part. listening: the controller
\* registered its "end" listener and the response waits for the body.
Dispatch(req, S) ==
    IF req.path = "/"
    THEN [listening |-> FALSE, sessions |-> S,
          out |-> IF req.method = "GET"
                  THEN Render("home", req.user, "home", "")
                  ELSE Unanswered("home")]
    ELSE IF req.path = "/login"
    THEN [listening |-> req.method = "POST", sessions |-> S,
          out |-> IF req.method = "GET"
                  THEN Render("login", req.user, "login", "")
                  ELSE Unanswered("login")]
    ELSE IF req.path = "/register"
    THEN [listening |-> req.method = "POST", sessions |-> S,
          out |-> IF req.method = "GET"
                  THEN Render("register", req.user, "register", "")
                  ELSE Unanswered("register")]
    ELSE IF req.path = "/logout"
    THEN [listening |-> FALSE, sessions |-> LogoutController(req, S).sessions,
          out |-> LogoutController(req, S).out]
    ELSE [listening |-> FALSE, sessions |-> S, out |-> NotFound]

(***************************************************************************)
(* The requests the model sends.                                           *)
(***************************************************************************)
RequestLines ==
    {<<"GET", "/">>, <<"POST", "/login">>, <<"POST", "/register">>,
     <<"GET", "/logout">>}

CookieHeaders ==
    {NoHeader} \cup {<<"sessionId", "=", id[1]>> : id \in SessionIds}

\* formData.get of a field: a value, or NULL when the body lacks the field
FormUsernames == Usernames \cup {NULL}
RegisterPasswords == {"pw1", NULL}
LoginPasswords == Passwords \cup {NULL}
FormPasswords(line) ==
    IF line[2] = "/register" THEN RegisterPasswords ELSE LoginPasswords

HasForm(line) == line \in {<<"POST", "/login">>, <<"POST", "/register">>}

\* the clock moves by a whole time to live, or by a millisecond more
ClockSteps == {TTL, TTL + 1}
TicksTaken(t) == t \div TTL

Idle ==
    [pc |-> "idle", method |-> "", path |-> "", cookies |-> NoCookies,
     username |-> NULL, password |-> NULL, user |-> NoUser, session |-> NoSession]

\* session ids randomBytes has not returned before
FreshIds == SessionIds \ issued

(***************************************************************************)
(* Actions.                                                                *)
(***************************************************************************)
\* A request arrives: the server callback up to its first real suspension
\* (parseCookies, attachUser, then handleStatic awaits the file system).
Receive(r, line, cookieHeader, username, password) ==
    /\ ~crashed
    /\ reqs[r].pc = "idle"
    /\ \A q \in Slots : q < r => reqs[q].pc /= "idle"
    /\ LET cookies == ParseCookies(cookieHeader)
           att == AttachUser(cookies, users, sessions, now)
       IN  IF cookies = ThrownCookies
           THEN /\ crashed' = TRUE
                /\ out' = Fault("server")
                /\ UNCHANGED <<users, sessions, issued, now, reqs, pw, ck>>
           ELSE /\ sessions' = att.sessions
                /\ reqs' = [reqs EXCEPT ![r] =
                       [pc |-> "route", method |-> line[1], path |-> line[2],
                        cookies |-> cookies, username |-> username,
                        password |-> password, user |-> att.user,
                        session |-> att.session]]
                /\ out' = NoOut
                /\ UNCHANGED <<users, issued, now, crashed, pw, ck>>

\* handleStatic has answered or declined; the route's controller runs.
Route(r) ==
    /\ ~crashed
    /\ reqs[r].pc = "route"
    /\ LET req == reqs[r]
           d == Dispatch(req, sessions)
       IN  IF req.path \in StaticPaths
           THEN /\ out' = StaticFile
                /\ reqs' = [reqs EXCEPT ![r] = Idle]
                /\ UNCHANGED sessions
           ELSE IF d.listening
           THEN /\ reqs' = [reqs EXCEPT ![r].pc = "body"]
                /\ out' = NoOut
                /\ UNCHANGED sessions
           ELSE /\ sessions' = d.sessions
                /\ out' = d.out
                /\ reqs' = [reqs EXCEPT ![r] = Idle]
    /\ UNCHANGED <<users, issued, now, crashed, pw, ck>>

\* The body of a login POST has arrived: the "end" listener runs.
LoginEnd(r, ids) ==
    /\ ~crashed
    /\ reqs[r].pc = "body"
    /\ reqs[r].path = "/login"
    /\ \E sessionId \in ids \cup {<<>>} :
         LET res == LoginController(reqs[r], users, sessions, now, sessionId)
         IN  /\ res.drew <=> sessionId \in ids
             /\ sessions' = res.sessions
             /\ out' = res.out
             /\ crashed' = res.threw
             /\ issued' = IF res.drew THEN issued \cup {sessionId} ELSE issued
    /\ reqs' = [reqs EXCEPT ![r] = Idle]
    /\ UNCHANGED <<users, now, pw, ck>>

\* The body of a register POST has arrived: the "end" listener runs.
RegisterEnd(r, ids) ==
    /\ ~crashed
    /\ reqs[r].pc = "body"
    /\ reqs[r].path = "/register"
    /\ \E sessionId \in ids \cup {<<>>}, salt \in ServerSalts :
         LET res == RegisterController(reqs[r], users, sessions, now, sessionId, salt)
         IN  /\ res.drew <=> sessionId \in ids
             /\ Len(res.users) <= MaxUsers
             /\ users' = res.users
             /\ sessions' = res.sessions
             /\ out' = res.out
             /\ crashed' = res.threw
             /\ issued' = IF res.drew THEN issued \cup {sessionId} ELSE issued
    /\ reqs' = [reqs EXCEPT ![r] = Idle]
    /\ UNCHANGED <<now, pw, ck>>

\* Time passes.
Tick(d) ==
    /\ ~crashed
    /\ TicksTaken(now) < MaxTicks
    /\ now' = now + d
    /\ out' = NoOut
    /\ UNCHANGED <<users, sessions, issued, reqs, crashed, pw, ck>>

\* the credential hasher at rest
PwIdle == [hashes |-> <<>>, verify |-> <<>>]

InitServer ==
    /\ users = <<>>
    /\ sessions = {}
    /\ issued = {}
    /\ now = 0
    /\ reqs = [r \in Slots |-> Idle]
    /\ out = NoOut
    /\ crashed = FALSE

\* the cookie codec at rest
CkIdle == [parsed |-> FALSE, header |-> NoHeader, cookies |-> NoCookies]

Init == InitServer /\ pw = PwIdle /\ ck = CkIdle

Arrivals ==
    \E r \in Slots, line \in RequestLines :
        \E c \in (IF HasForm(line) THEN {NoHeader} ELSE CookieHeaders),
           u \in (IF HasForm(line) THEN FormUsernames ELSE {NULL}),
           p \in (IF HasForm(line) THEN FormPasswords(line) ELSE {NULL}) :
            Receive(r, line, c, u, p)

\* the server, session ids never drawn twice
Next ==
    \/ Arrivals
    \/ \E r \in Slots : Route(r)
    \/ \E r \in Slots : LoginEnd(r, FreshIds)
    \/ \E r \in Slots : RegisterEnd(r, FreshIds)
    \/ \E d \in ClockSteps : Tick(d)

Spec == Init /\ [][Next]_vars

(***************************************************************************)
(* The credential hasher on its own: hashPassword and verifyPassword       *)
(* applied to passwords, salts and stored strings of bounded length.       *)
(***************************************************************************)
RECURSIVE SeqsUpTo(_, _)
SeqsUpTo(S, n) ==
    IF n = 0 THEN {<<>>}
    ELSE LET shorter == SeqsUpTo(S, n - 1)
         IN  shorter \cup {Append(q, x) : q \in shorter, x \in S}

\* the tokens a stored string is made of
StoredTokens == {":", "aa", Pbkdf2Sync("pw1", <<"aa">>)}

StoredStrings == SeqsUpTo(StoredTokens, MaxStoredLen)

\* hashPassword(password) is called and draws salt
HashStep(password, salt) ==
    /\ Len(pw.hashes) < MaxHashes
    /\ pw' = [pw EXCEPT !.hashes = Append(@,
                 [password |-> password, salt |-> salt,
                  stored |-> HashPassword(password, salt)])]
    /\ UNCHANGED <<users, sessions, issued, now, reqs, out, crashed, ck>>

\* verifyPassword(password, storedHash) is called
VerifyStep(password, storedHash) ==
    /\ pw.verify = <<>>
    /\ pw' = [pw EXCEPT !.verify =
                 <<[password |-> password, stored |-> storedHash,
                    result |-> VerifyPassword(password, storedHash)]>>]
    /\ UNCHANGED <<users, sessions, issued, now, reqs, out, crashed, ck>>

NextPw ==
    \/ \E password \in Passwords, salt \in Salts : HashStep(password, salt)
    \/ \E password \in Passwords :
         \E storedHash \in StoredStrings \cup
                {pw.hashes[i].stored : i \in 1..Len(pw.hashes)} :
            VerifyStep(password, storedHash)

SpecPw == Init /\ [][NextPw]_vars

(***************************************************************************)
(* The cookie codec on its own: parseCookies applied to Cookie headers of  *)
(* bounded length.                                                         *)
(***************************************************************************)
\* the tokens a Cookie header is made of
HeaderTokens == {";", "=", " ", "sessionId", "s1", "%"}

HeaderStrings == {NoHeader} \cup SeqsUpTo(HeaderTokens, MaxHeaderLen)

\* req.cookies = parseCookies(req.headers.cookie)
ParseStep(cookieHeader) ==
    /\ ~ck.parsed
    /\ ck' = [parsed |-> TRUE, header |-> cookieHeader,
              cookies |-> ParseCookies(cookieHeader)]
    /\ UNCHANGED <<users, sessions, issued, now, reqs, out, crashed, pw>>

NextCk == \E cookieHeader \in HeaderStrings : ParseStep(cookieHeader)

SpecCk == Init /\ [][NextCk]_vars

(***************************************************************************)
(* The server once a user has registered and logged out: logins, logouts   *)
(* and page views of that user, session ids never drawn twice.             *)
(***************************************************************************)
\* the users table after alice registered with password pw1
RegisteredUsers ==
    <<[id |-> 1, username |-> "alice", password |-> HashPassword("pw1", "aa")]>>

InitRegistered ==
    /\ users = RegisteredUsers
    /\ sessions = {}
    /\ issued = {}
    /\ now = 0
    /\ reqs = [r \in Slots |-> Idle]
    /\ out = NoOut
    /\ crashed = FALSE
    /\ pw = PwIdle
    /\ ck = CkIdle

LoginLines == {<<"GET", "/">>, <<"POST", "/login">>, <<"GET", "/logout">>}

ArrivalsOf(lines) ==
    \E r \in Slots, line \in lines :
        \E c \in (IF HasForm(line) THEN {NoHeader} ELSE CookieHeaders),
           u \in (IF HasForm(line) THEN FormUsernames ELSE {NULL}),
           p \in (IF HasForm(line) THEN FormPasswords(line) ELSE {NULL}) :
            Receive(r, line, c, u, p)

NextLogins ==
    \/ ArrivalsOf(LoginLines)
    \/ \E r \in Slots : Route(r)
    \/ \E r \in Slots : LoginEnd(r, FreshIds)
    \/ \E d \in ClockSteps : Tick(d)

SpecLogins == InitRegistered /\ [][NextLogins]_vars

(***************************************************************************)
(* The server started on a db.sqlite written earlier: the tables hold any  *)
(* rows the column constraints allow, a session row whose user row is      *)
(* missing included, and the requests are page views.                      *)
(***************************************************************************)
StoredRows ==
    {[id |-> id, user_id |-> u, expires_at |-> ToISOString(TTL)] :
        id \in SessionIds, u \in 1..MaxUsers}

\* id is the PRIMARY KEY of sessions
StoredSessions ==
    {S \in SUBSET StoredRows : \A a, b \in S : a.id = b.id => a = b}

InitStored ==
    /\ users \in {<<>>, RegisteredUsers}
    /\ sessions \in StoredSessions
    /\ issued = SessionRowIds(sessions)
    /\ now = 0
    /\ reqs = [r \in Slots |-> Idle]
    /\ out = NoOut
    /\ crashed = FALSE
    /\ pw = PwIdle
    /\ ck = CkIdle

ViewLines == {<<"GET", "/">>}

NextStored ==
    \/ ArrivalsOf(ViewLines)
    \/ \E r \in Slots : Route(r)
    \/ \E d \in ClockSteps : Tick(d)

SpecStored == InitStored /\ [][NextStored]_vars

(***************************************************************************)
(* The server with crypto.randomBytes free to return an id it returned     *)
(* before, under the requests that add or delete session rows; the forms   *)
(* carry both fields.                                                      *)
(***************************************************************************)
CollideLines == RequestLines \ {<<"GET", "/">>}

\* two people register, so that a registration can find a session row of
\* somebody else in the table
FullFormUsernames == Usernames \cup {"bob"}

ArrivalsFull(lines) ==
    \E r \in Slots, line \in lines :
        \E c \in (IF HasForm(line) THEN {NoHeader} ELSE CookieHeaders),
           u \in (IF HasForm(line) THEN FullFormUsernames ELSE {NULL}),
           p \in (IF HasForm(line) THEN RegisterPasswords \ {NULL} ELSE {NULL}) :
            Receive(r, line, c, u, p)

NextCollide ==
    \/ ArrivalsFull(CollideLines)
    \/ \E r \in Slots : Route(r)
    \/ \E r \in Slots : LoginEnd(r, SessionIds)
    \/ \E r \in Slots : RegisterEnd(r, SessionIds)
    \/ \E d \in ClockSteps : Tick(d)

SpecCollide == Init /\ [][NextCollide]_vars

(***************************************************************************)
(* The server under requests of every method to every kind of path: the    *)
(* four routes, a file of public/ and a path that is neither. The requests *)
(* carry no cookie.                                                        *)
(***************************************************************************)
Methods == {"GET", "POST", "PUT"}

Paths == {"/", "/login", "/register", "/logout", "/styles.css", "/nope"}

RouteLines == {<<method, path>> : method \in Methods, path \in Paths}

\* requests without a Cookie header
ArrivalsAnonymous(lines) ==
    \E r \in Slots, line \in lines :
        \E u \in (IF HasForm(line) THEN FormUsernames ELSE {NULL}),
           p \in (IF HasForm(line) THEN FormPasswords(line) ELSE {NULL}) :
            Receive(r, line, NoHeader, u, p)

NextRoutes ==
    \/ ArrivalsAnonymous(RouteLines)
    \/ \E r \in Slots : Route(r)
    \/ \E r \in Slots : LoginEnd(r, FreshIds)
    \/ \E r \in Slots : RegisterEnd(r, FreshIds)

SpecRoutes == Init /\ [][NextRoutes]_vars

(***************************************************************************)
(* Steps of a request, for the properties below.                           *)
(***************************************************************************)
\* req.cookies.sessionId
CookieId(req) == GetCookie(req.cookies, <<"sessionId">>)

\* the step resolves the identity of the request in slot r
Resolved(r) == reqs[r].pc = "idle" /\ reqs'[r].pc = "route"

\* the step runs the route of the request in slot r and ends it
Routed(r) == reqs[r].pc = "route" /\ reqs'[r].pc = "idle"

\* the step runs the "end" listener of the POST to path in slot r
Ended(r, path) ==
    reqs[r].pc = "body" /\ reqs[r].path = path /\ reqs'[r].pc = "idle"

\* some user row has this username
HasUserRow(username) == \E i \in 1..Len(users) : users[i].username = username

(***************************************************************************)
(* C1. A session is created with expires_at = creation time + 7 days; a    *)
(* resolve of a request whose sessionId cookie is the id of a session row  *)
(* attaches that row and the user row it references while the clock has    *)
(* not passed expires_at, and attaches no session and no user once the     *)
(* clock is past expires_at.                                               *)
(***************************************************************************)
C1_ResolveUntilExpiry ==
    [][/\ \A row \in sessions' \ sessions :
            DateParse(row.expires_at) = now + TTL
       /\ \A r \in Slots : Resolved(r) =>
            \A row \in sessions : row.id = CookieId(reqs'[r]) =>
                IF now <= DateParse(row.expires_at)
                THEN /\ reqs'[r].session = row
                     /\ row.user_id \in 1..Len(users)
                     /\ reqs'[r].user = users[row.user_id]
                ELSE /\ reqs'[r].session = NoSession
                     /\ reqs'[r].user = NoUser]_vars

\* a request resolved to a session at the very instant the session expires
C1_Witness ==
    \E r \in Slots :
        /\ reqs[r].pc = "route"
        /\ reqs[r].session /= NoSession
        /\ reqs[r].user.id = reqs[r].session.user_id
        /\ now = DateParse(reqs[r].session.expires_at)
        /\ now > 0

(***************************************************************************)
(* C2. A request to /logout: with a sessionId cookie, no session row has   *)
(* that id afterwards (and no row is added); without one the sessions      *)
(* table is unchanged; logging out an id that has no row changes nothing   *)
(* (twice is the same as once); the response is a 302 to / that sets an    *)
(* empty sessionId cookie expiring at the epoch. A deleted id never gets a *)
(* row again, and a resolve with a cookie that names no row attaches no    *)
(* session and no user.                                                    *)
(***************************************************************************)
C2_LogoutDeletesSession ==
    [][/\ \A r \in Slots : (Routed(r) /\ reqs[r].path = "/logout") =>
            /\ CookieId(reqs[r]) /= <<NULL>> =>
                   /\ CookieId(reqs[r]) \notin SessionRowIds(sessions')
                   /\ sessions' \subseteq sessions
            /\ CookieId(reqs[r]) = <<NULL>> => sessions' = sessions
            /\ CookieId(reqs[r]) \notin SessionRowIds(sessions) => sessions' = sessions
            /\ users' = users
            /\ out'.outcome = "response"
            /\ out'.status = 302
            /\ out'.location = "/"
            /\ out'.cookie = [set |-> TRUE, value |-> <<>>, expires |-> 0]
       /\ \A id \in issued :
            id \notin SessionRowIds(sessions) => id \notin SessionRowIds(sessions')
       /\ \A r \in Slots : Resolved(r) =>
            (CookieId(reqs'[r]) \notin SessionRowIds(sessions) =>
                reqs'[r].session = NoSession /\ reqs'[r].user = NoUser)]_vars

\* a logout has just answered, and a session id issued before has no row
\* although no session can have expired yet
C2_Witness ==
    /\ out.ctl = "logout"
    /\ out.status = 302
    /\ now = 0
    /\ \E id \in issued : id \notin SessionRowIds(sessions)

(***************************************************************************)
(* C3. A register POST whose username already has a user row adds no user  *)
(* row and no session row, sets no cookie, does not redirect, and answers  *)
(* 200 with the register form and an error.                                *)
(***************************************************************************)
C3_DuplicateRegisterRejected ==
    [][\A r \in Slots :
        (/\ Ended(r, "/register")
         /\ reqs[r].username /= NULL
         /\ HasUserRow(reqs[r].username)) =>
            /\ users' = users
            /\ sessions' = sessions
            /\ ~out'.cookie.set
            /\ out'.location = ""
            /\ out'.outcome = "response"
            /\ out'.status = 200
            /\ out'.page = "register"
            /\ out'.text /= ""]_vars

(***************************************************************************)
(* C4. A login POST whose username has no user row, or whose password does *)
(* not verify against the stored hash, leaves the sessions table as it     *)
(* was, sets no cookie and answers 200 with the login form.                *)
(***************************************************************************)
C4_FailedLoginNoSession ==
    [][\A r \in Slots :
        (/\ Ended(r, "/login")
         /\ \/ SelectUserByName(users, reqs[r].username) = NoUser
            \/ ~VerifyPassword(reqs[r].password,
                   SelectUserByName(users, reqs[r].username).password).value) =>
            /\ sessions' = sessions
            /\ ~out'.cookie.set
            /\ out'.outcome = "response"
            /\ out'.status = 200
            /\ out'.page = "login"]_vars

(***************************************************************************)
(* C5. Every failed login POST (one that creates no session) has the same  *)
(* observable outcome whatever was wrong, the username or the password,    *)
(* the password field missing included: the handler completes and renders  *)
(* the login form with the one generic error.                              *)
(***************************************************************************)
C5_FailedLoginUniform ==
    [][\A r \in Slots :
        (Ended(r, "/login") /\ sessions' = sessions) =>
            /\ ~crashed'
            /\ out' = Render("login", reqs[r].user, "login",
                             "Invalid username or password")]_vars

(***************************************************************************)
(* C6. A register POST that submits a password and a username with no user *)
(* row adds exactly one user row, with that username and a stored hash of  *)
(* the submitted password, adds exactly one session row, owned by the new  *)
(* user, sets a sessionId cookie carrying that row's id, and answers 302   *)
(* with Location /.                                                        *)
(***************************************************************************)
C6_RegisterCreatesUserAndSession ==
    [][\A r \in Slots :
        (/\ Ended(r, "/register")
         /\ reqs[r].username /= NULL
         /\ reqs[r].password /= NULL
         /\ ~HasUserRow(reqs[r].username)) =>
            /\ Len(users') = Len(users) + 1
            /\ SubSeq(users', 1, Len(users)) = users
            /\ users'[Len(users')].id = Len(users')
            /\ users'[Len(users')].username = reqs[r].username
            /\ \A p \in Passwords :
                 VerifyPassword(p, users'[Len(users')].password).value
                     <=> p = reqs[r].password
            /\ \E row \in sessions' :
                 /\ row.id \notin SessionRowIds(sessions)
                 /\ sessions' = sessions \cup {row}
                 /\ row.user_id = users'[Len(users')].id
                 /\ out'.cookie.set
                 /\ out'.cookie.value = row.id
            /\ out'.outcome = "response"
            /\ out'.status = 302
            /\ out'.location = "/"]_vars

\* a registration has just answered with the cookie of alice's new session
C6_Witness ==
    /\ out.ctl = "register"
    /\ out.status = 302
    /\ \E row \in sessions :
         /\ row.id = out.cookie.value
         /\ users[row.user_id].username = "alice"

\* the user row a login POST names and the password it submits verify
LoginVerifies(req) ==
    /\ SelectUserByName(users, req.username) /= NoUser
    /\ VerifyPassword(req.password,
                      SelectUserByName(users, req.username).password).value

(***************************************************************************)
(* C7 as stated. A login POST with an existing username and a password     *)
(* that verifies adds exactly one session row, for that user, with         *)
(* expires_at = now + 7 days, sets a sessionId cookie whose value is the   *)
(* row's id and whose Expires is the same instant as the row's expires_at, *)
(* and answers 302 with Location /; a cookie is only emitted with its row  *)
(* in the table.                                                           *)
(***************************************************************************)
C7_LoginCookieSameInstant ==
    [][/\ \A r \in Slots : (Ended(r, "/login") /\ LoginVerifies(reqs[r])) =>
            /\ \E row \in sessions' :
                 /\ row.id \notin SessionRowIds(sessions)
                 /\ sessions' = sessions \cup {row}
                 /\ row.user_id = SelectUserByName(users, reqs[r].username).id
                 /\ DateParse(row.expires_at) = now + TTL
                 /\ out'.cookie.set
                 /\ out'.cookie.value = row.id
                 /\ HttpDateInstant(out'.cookie.expires) = DateParse(row.expires_at)
            /\ out'.outcome = "response"
            /\ out'.status = 302
            /\ out'.location = "/"
       /\ (out'.cookie.set /\ out'.cookie.value /= <<>>) =>
            out'.cookie.value \in SessionRowIds(sessions')]_vars

(***************************************************************************)
(* C7 as amended. The same, except that the cookie's Expires is the row's  *)
(* expires_at cut to whole seconds: it is not later than expires_at and    *)
(* less than one second earlier.                                           *)
(***************************************************************************)
C7_LoginCookieSameSecond ==
    [][/\ \A r \in Slots : (Ended(r, "/login") /\ LoginVerifies(reqs[r])) =>
            /\ \E row \in sessions' :
                 /\ row.id \notin SessionRowIds(sessions)
                 /\ sessions' = sessions \cup {row}
                 /\ row.user_id = SelectUserByName(users, reqs[r].username).id
                 /\ DateParse(row.expires_at) = now + TTL
                 /\ out'.cookie.set
                 /\ out'.cookie.value = row.id
                 /\ HttpDateInstant(out'.cookie.expires) <= DateParse(row.expires_at)
                 /\ DateParse(row.expires_at) <
                        HttpDateInstant(out'.cookie.expires) + MsPerSecond
            /\ out'.outcome = "response"
            /\ out'.status = 302
            /\ out'.location = "/"
       /\ (out'.cookie.set /\ out'.cookie.value /= <<>>) =>
            out'.cookie.value \in SessionRowIds(sessions')]_vars

\* a login has just answered with its cookie, at an instant that is not a
\* whole second
C7_Witness ==
    /\ out.ctl = "login"
    /\ out.status = 302
    /\ out.cookie.value \in SessionRowIds(sessions)
    /\ now % MsPerSecond /= 0

(***************************************************************************)
(* C8. A register or login POST that lacks the username or the password    *)
(* field still completes with a normal response, never an exception.       *)
(***************************************************************************)
C8_MissingFieldNotFatal ==
    [][\A r \in Slots :
        (/\ Ended(r, "/login") \/ Ended(r, "/register")
         /\ reqs[r].username = NULL \/ reqs[r].password = NULL) =>
            /\ out'.outcome = "response"
            /\ ~crashed']_vars

(***************************************************************************)
(* C9. Password round trip: verifying password q against the string that   *)
(* hashPassword stored for password p does not raise and is true exactly   *)
(* when q = p; two hashes of one password made with different salts are    *)
(* different stored strings (and, by the first part, both verify).         *)
(***************************************************************************)
C9_PasswordRoundTrip ==
    /\ \A i \in 1..Len(pw.hashes), k \in 1..Len(pw.verify) :
         pw.verify[k].stored = pw.hashes[i].stored =>
            /\ ~pw.verify[k].result.threw
            /\ pw.verify[k].result.value <=>
                   pw.verify[k].password = pw.hashes[i].password
    /\ \A i, j \in 1..Len(pw.hashes) :
         (/\ pw.hashes[i].password = pw.hashes[j].password
          /\ pw.hashes[i].salt /= pw.hashes[j].salt) =>
            pw.hashes[i].stored /= pw.hashes[j].stored

\* one password hashed twice with different salts, and the second stored
\* string verified against it
C9_Witness ==
    /\ Len(pw.hashes) = 2
    /\ pw.hashes[1].password = pw.hashes[2].password
    /\ pw.hashes[1].salt /= pw.hashes[2].salt
    /\ Len(pw.verify) = 1
    /\ pw.verify[1].stored = pw.hashes[2].stored
    /\ pw.verify[1].result.value

(***************************************************************************)
(* C10. verify fails closed: against a stored string that is not exactly   *)
(* two parts joined by one ":" it returns false and does not raise.        *)
(***************************************************************************)
C10_VerifyFailsClosed ==
    \A k \in 1..Len(pw.verify) :
        Len(Split(pw.verify[k].stored, ":")) /= 2 =>
            /\ ~pw.verify[k].result.threw
            /\ ~pw.verify[k].result.value

\* the pairs of a header that have a "=", in order
RECURSIVE WellFormedPairs(_)
WellFormedPairs(pairs) ==
    IF pairs = <<>> THEN <<>>
    ELSE IF Len(Split(Trim(Head(pairs)), "=")) >= 2
    THEN <<Head(pairs)>> \o WellFormedPairs(Tail(pairs))
    ELSE WellFormedPairs(Tail(pairs))

(***************************************************************************)
(* C11. Parsing a Cookie header never fails because of a pair without "=", *)
(* such a pair contributes no entry, and the result is what the pairs that *)
(* have a "=" give on their own; no header gives the empty mapping.        *)
(***************************************************************************)
C11_MalformedPairsSkipped ==
    ck.parsed =>
        /\ ck.header = NoHeader => ck.cookies = NoCookies
        /\ ck.header /= NoHeader =>
             ck.cookies = ReduceCookies(NoCookies,
                              WellFormedPairs(Split(ck.header, ";")))

\* the cookies object of a request that presents this session id
CookiesOf(sessionId) == {[name |-> <<"sessionId">>, value |-> sessionId]}

(***************************************************************************)
(* C12. Every successful login of a user adds one session row with an id   *)
(* no other row has and leaves the rows there are; a row leaves the table  *)
(* only by a logout that presents its id or by a resolve that presents its *)
(* id after its expiry, so logging out or expiring one session keeps the   *)
(* user's other rows; and at any moment every unexpired row resolves, with *)
(* its own cookie, to itself and to its user, without changing the table.  *)
(***************************************************************************)
C12_IndependentSessions ==
    [][/\ \A r \in Slots : (Ended(r, "/login") /\ LoginVerifies(reqs[r])) =>
            \E row \in sessions' :
                /\ row.id \notin SessionRowIds(sessions)
                /\ sessions' = sessions \cup {row}
                /\ row.user_id = SelectUserByName(users, reqs[r].username).id
       /\ \A row \in sessions \ sessions' :
            \E r \in Slots :
                \/ /\ Routed(r)
                   /\ reqs[r].path = "/logout"
                   /\ CookieId(reqs[r]) = row.id
                \/ /\ Resolved(r)
                   /\ CookieId(reqs'[r]) = row.id
                   /\ DateParse(row.expires_at) < now
       /\ \A row \in sessions' :
            now' <= DateParse(row.expires_at) =>
                LET att == AttachUser(CookiesOf(row.id), users', sessions', now')
                IN  /\ att.session = row
                    /\ att.user = users'[row.user_id]
                    /\ att.sessions = sessions']_vars

\* alice logged in twice and has just logged one session out: the other
\* row is still there, and nothing can have expired
C12_Witness ==
    /\ out.ctl = "logout"
    /\ now = 0
    /\ Cardinality(issued) = 2
    /\ \E row \in sessions :
         /\ sessions = {row}
         /\ users[row.user_id].username = "alice"

(***************************************************************************)
(* C13. A GET / is resolved to the owner of the session its cookie names   *)
(* when that row exists and has not expired, and to no user when it has no *)
(* cookie, an unknown id or an expired session; the page is the            *)
(* authenticated variant (Logout link, greeting with the user's name)      *)
(* exactly when resolve attached a user, the anonymous variant (Login and  *)
(* Register links) otherwise.                                              *)
(***************************************************************************)
C13_HomeVariantFollowsResolve ==
    [][/\ \A r \in Slots :
            (Resolved(r) /\ reqs'[r].path = "/" /\ reqs'[r].method = "GET") =>
                LET row == SelectSession(sessions, CookieId(reqs'[r]))
                IN  IF /\ CookieId(reqs'[r]) \in SessionRowIds(sessions)
                       /\ now <= DateParse(row.expires_at)
                    THEN reqs'[r].user = users[row.user_id]
                    ELSE reqs'[r].user = NoUser
       /\ \A r \in Slots :
            (Routed(r) /\ reqs[r].path = "/" /\ reqs[r].method = "GET") =>
                /\ out'.outcome = "response"
                /\ out'.status = 200
                /\ out'.page = "home"
                /\ IF reqs[r].user /= NoUser
                   THEN /\ out'.nav = "Logout"
                        /\ out'.text = "Hello, " \o reqs[r].user.username \o "!"
                   ELSE /\ out'.nav = "Login Register"
                        /\ out'.text = "Please log in or register."]_vars

\* the home page has just been rendered for alice
C13_Witness ==
    /\ out.ctl = "home"
    /\ out.page = "home"
    /\ out.nav = "Logout"
    /\ out.text = "Hello, alice!"

(***************************************************************************)
(* C14. A resolve deletes a session row only when the request's cookie     *)
(* names that row and the row has expired, and then deletes that row and   *)
(* nothing else; any other resolve leaves both tables as they were. Apart  *)
(* from that and from a logout presenting its id, no step removes a row:   *)
(* an expired row nobody presents stays in the table.                      *)
(***************************************************************************)
C14_LazyEvictionFrame ==
    [][/\ \A r \in Slots : Resolved(r) =>
            LET row == SelectSession(sessions, CookieId(reqs'[r]))
            IN  /\ users' = users
                /\ IF /\ CookieId(reqs'[r]) \in SessionRowIds(sessions)
                      /\ DateParse(row.expires_at) < now
                   THEN sessions' = sessions \ {row}
                   ELSE sessions' = sessions
       /\ \A row \in sessions :
            (\A r \in Slots :
                /\ ~(Resolved(r) /\ CookieId(reqs'[r]) = row.id)
                /\ ~(Routed(r) /\ reqs[r].path = "/logout"
                                /\ CookieId(reqs[r]) = row.id)) =>
                row \in sessions']_vars

\* a request presenting an id that was issued has been resolved to nothing
\* and the id has no row, while another row, expired too, is still stored
C14_Witness ==
    \E r \in Slots :
        /\ reqs[r].pc = "route"
        /\ reqs[r].session = NoSession
        /\ CookieId(reqs[r]) \in issued \ SessionRowIds(sessions)
        /\ \E row \in sessions : DateParse(row.expires_at) < now

(***************************************************************************)
(* C15. After a resolve the request has a user attached exactly when it    *)
(* has a session attached, the attached user's id is the attached          *)
(* session's user_id, and a cookie naming a session row whose user row is  *)
(* missing attaches no session and no user, and nothing is raised.         *)
(***************************************************************************)
C15_BothOrNeither ==
    [][\A r \in Slots : Resolved(r) =>
        LET row == SelectSession(sessions, CookieId(reqs'[r]))
        IN  /\ reqs'[r].user = NoUser <=> reqs'[r].session = NoSession
            /\ reqs'[r].session /= NoSession =>
                   /\ reqs'[r].user.id = reqs'[r].session.user_id
                   /\ reqs'[r].user = users[reqs'[r].session.user_id]
            /\ (/\ CookieId(reqs'[r]) \in SessionRowIds(sessions)
                /\ row.user_id \notin 1..Len(users)) =>
                   /\ reqs'[r].session = NoSession
                   /\ reqs'[r].user = NoUser
            /\ ~crashed'
            /\ out'.outcome /= "exception"]_vars

\* a request presenting an unexpired session whose user row is missing has
\* been resolved to no session and no user
C15_Witness ==
    \E r \in Slots :
        /\ reqs[r].pc = "route"
        /\ reqs[r].session = NoSession
        /\ reqs[r].user = NoUser
        /\ \E row \in sessions :
             /\ row.id = CookieId(reqs[r])
             /\ row.user_id \notin 1..Len(users)
             /\ now <= DateParse(row.expires_at)

(***************************************************************************)
(* C16. No two session rows have the same id. A login or a registration    *)
(* keeps every row there is, adds at most one row and only under an id no  *)
(* row has, and answers with a cookie only for the row it added; when the  *)
(* id drawn for it is the id of an existing row, the request is rejected:  *)
(* the sessions table stays as it was and no cookie is sent.               *)
(***************************************************************************)
C16_NoOverwrite ==
    [][/\ \A a, b \in sessions' : a.id = b.id => a = b
       /\ \A r \in Slots : (Ended(r, "/login") \/ Ended(r, "/register")) =>
            /\ sessions \subseteq sessions'
            /\ \A row \in sessions' \ sessions :
                 /\ row.id \notin SessionRowIds(sessions)
                 /\ sessions' = sessions \cup {row}
            /\ out'.cookie.set =>
                 \E row \in sessions' \ sessions : row.id = out'.cookie.value
       /\ \A r \in Slots, id \in SessionRowIds(sessions) :
            /\ Ended(r, "/login") =>
                 LET res == LoginController(reqs[r], users, sessions, now, id)
                 IN  /\ res.sessions = sessions
                     /\ ~res.out.cookie.set
            /\ Ended(r, "/register") =>
                 \A salt \in ServerSalts :
                    LET res == RegisterController(reqs[r], users, sessions,
                                                  now, id, salt)
                    IN  /\ res.sessions = sessions
                        /\ ~res.out.cookie.set]_vars

\* a login drew the id of an existing row: it raised, and the row is there
C16_Witness ==
    /\ crashed
    /\ out = Fault("login")
    /\ sessions /= {}
    /\ SessionRowIds(sessions) \subseteq issued

(***************************************************************************)
(* C17. In every state the requests can reach, the user_id of every        *)
(* session row is the id of a user row; and no step changes or removes a   *)
(* user row: the rows there are keep their id, username and password hash, *)
(* new rows are only appended.                                             *)
(***************************************************************************)
C17_ReferentialIntegrity ==
    [][/\ \A row \in sessions' :
            /\ row.user_id \in 1..Len(users')
            /\ users'[row.user_id].id = row.user_id
       /\ Len(users') >= Len(users)
       /\ SubSeq(users', 1, Len(users)) = users]_vars

\* two users are registered and each owns a session row
C17_Witness ==
    /\ Len(users) = 2
    /\ \E a, b \in sessions : a.user_id = 1 /\ b.user_id = 2

(***************************************************************************)
(* C18. No two user rows have the same username, whatever the register     *)
(* forms contained, forms without a username field included.               *)
(***************************************************************************)
C18_UsernamesUnique ==
    \A i, j \in 1..Len(users) :
        users[i].username = users[j].username => i = j

(***************************************************************************)
(* C19. Whatever its method and its path, the handling of a request ends   *)
(* with a response written: it never returns, and never raises, with the   *)
(* request left unanswered.                                                *)
(***************************************************************************)
C19_EveryRequestAnswered ==
    [][\A r \in Slots :
        (reqs[r].pc /= "idle" /\ reqs'[r].pc = "idle") =>
            out'.outcome = "response"]_vars

(***************************************************************************)
(* C20. Whenever a page is rendered as authenticated, the session row that *)
(* resolve attached to the request is in the sessions table at the moment  *)
(* of rendering, whatever ran between the resolve and the render.          *)
(***************************************************************************)
C20_NoStaleIdentity ==
    [][\A r \in Slots :
        (/\ reqs[r].pc /= "idle"
         /\ reqs'[r].pc = "idle"
         /\ out'.outcome = "response"
         /\ out'.nav = "Logout") =>
            /\ reqs[r].session \in sessions
            /\ reqs[r].session \in sessions']_vars

(***************************************************************************)
(* C21. A register POST ends in one of two ways: a user row and a session  *)
(* row that references it were both added and the answer is the 302 with   *)
(* that session's cookie, or neither table has a new row. A user row is    *)
(* never stored without its session and without the success response.     *)
(***************************************************************************)
C21_RegisterAllOrNothing ==
    [][\A r \in Slots : Ended(r, "/register") =>
        \/ /\ Len(users') = Len(users) + 1
           /\ SubSeq(users', 1, Len(users)) = users
           /\ \E row \in sessions' :
                /\ sessions' = sessions \cup {row}
                /\ row \notin sessions
                /\ row.user_id = users'[Len(users')].id
                /\ out'.cookie.set
                /\ out'.cookie.value = row.id
           /\ out'.outcome = "response"
           /\ out'.status = 302
        \/ /\ users' = users
           /\ sessions' = sessions]_vars

====
